---- MODULE Spec2Model ----
(***************************************************************************)
(* wget-mp.py: the bounded process pool (class ProcessPool) and the        *)
(* orchestration in main() that drives it.                                 *)
(*                                                                         *)
(* One control thread (the caller) runs main(): it constructs the pool,    *)
(* calls run(cmd) once per url, then finalize(), and exits.  The child     *)
(* processes are the environment: an alive child may exit at any moment,   *)
(* and a child that was sent SIGKILL is still reported by poll() as        *)
(* running until the kernel has taken it down ("dying").                   *)
(*                                                                         *)
(* Time is the whole-second clock the code reads with                      *)
(* time.mktime(time.gmtime()).  It advances by one in every time.sleep(1)  *)
(* and while the caller is busy between two pool calls.                    *)
(***************************************************************************)
EXTENDS Integers, Sequences, FiniteSets

\* ---- bounds of the model ------------------------------------------------
MaxJobs == 3            \* at most this many urls on the command line
MaxProc == 2            \* --maxproc ranges over -1..MaxProc
MaxProcessTimeout == 1  \* --process-timeout ranges over 0..MaxProcessTimeout
MaxTimeout == 1         \* finalize(timeout) ranges over 0..MaxTimeout
MaxTime == 4            \* the clock stops advancing here

JobIds == 1..MaxJobs    \* the i-th url's process is process i

VARIABLES
    \* configuration (argparse / call arguments)
    process_timeout,    \* ProcessPool.process_timeout
    max_processes,      \* ProcessPool.max_processes
    timeout,            \* the timeout argument of finalize
    nurls,              \* len(args.url)
    lifetime,           \* 0: a child may exit at any time; D > 0: every
                        \* child exits when it has run for D seconds
    horizon,            \* the clock stops advancing here
    \* the pool
    ppool,              \* FALSE while main's ppool is None
    proc,               \* ProcessPool.proc: list of tracked processes
    \* the operating system
    status,             \* per process: "unborn", "alive", "dying", "exited"
    start_time,         \* per process: Popen.start_time
    kills,              \* per process: number of SIGKILLs sent to it
    now,                \* the clock, in whole seconds
    \* the caller
    pc,                 \* where main is
    url,                \* index of the url the for loop is at
    stime,              \* finalize's stime
    idx,                \* finalize's idx
    exit_status,        \* -1 while running, else the status of sys.exit
    \* history
    nkillall,           \* number of calls of killall so far
    lag,                \* finalize sweeps that kept an already killed process
    launched,           \* the processes in the order they were spawned
    freed,              \* when a tracked process first exited while the
                        \* caller was blocked in run, else -1
    nreports,           \* number of "waiting for ..." messages of finalize
    last_count          \* the process count of the last such message

cfgvars == <<process_timeout, max_processes, timeout, nurls, lifetime, horizon>>
osvars == <<status, start_time, kills, now>>
finvars == <<stime, idx>>
repvars == <<nreports, last_count>>
histvars == <<nkillall, lag, launched, freed, nreports, last_count>>
vars == <<process_timeout, max_processes, timeout, nurls, lifetime, horizon,
          ppool, proc, status, start_time, kills, now, pc, url, stime, idx,
          exit_status, nkillall, lag, launched, freed, nreports, last_count>>

\* the processes
Pids == DOMAIN status

\* ---- Popen ------------------------------------------------------------

\* Popen.poll(): None while the child has not been reaped as exited.
Poll(p) == IF status[p] = "exited" THEN "returncode" ELSE "None"

\* Popen.get_runtime
get_runtime(p) == now - start_time[p]

InProc(p) == \E k \in 1..Len(proc) : proc[k] = p

\* ---- ProcessPool.__clean ------------------------------------------------

\* line 89: the process is over its allowed runtime
ExceededAtLimit(p) == process_timeout > 0 /\ get_runtime(p) >= process_timeout
ExceededLate(p) == process_timeout > 0 /\ get_runtime(p) > process_timeout + 1
Exceeded(p) == process_timeout > 0 /\ get_runtime(p) > process_timeout

\* lines 88-91: __clean kills p
CleanKills(p) == Poll(p) = "None" /\ Exceeded(p)

\* lines 88, 92-94: __clean keeps p in newproc
CleanKeepsUnpolled(p) == ~Exceeded(p)
CleanKeeps(p) == Poll(p) = "None" /\ ~Exceeded(p)

\* line 97: the new value of self.proc
CleanProc == SelectSeq(proc, CleanKeeps)

\* the effect of __clean's p.kill() calls on the processes
CleanStatus ==
    [p \in Pids |-> IF InProc(p) /\ CleanKills(p) THEN "dying" ELSE status[p]]

CleanKillCount ==
    [p \in Pids |-> IF InProc(p) /\ CleanKills(p) THEN kills[p] + 1 ELSE kills[p]]

\* ---- ProcessPool.killall ------------------------------------------------

\* line 102: killall kills p
KillallKillsOverdue(p) == Poll(p) = "None" /\ Exceeded(p)
KillallKillsUnpolled(p) == TRUE
KillallKills(p) == Poll(p) = "None"

KillallStatus ==
    [p \in Pids |-> IF InProc(p) /\ KillallKills(p) THEN "dying" ELSE status[p]]

KillallKillCount ==
    [p \in Pids |-> IF InProc(p) /\ KillallKills(p) THEN kills[p] + 1 ELSE kills[p]]

\* killall leaves self.proc as it is
KillallProc == proc

\* ---- initial state ------------------------------------------------------

Init ==
    /\ process_timeout \in 0..MaxProcessTimeout
    /\ max_processes \in -1..MaxProc
    /\ timeout \in 0..MaxTimeout
    /\ nurls \in 1..MaxJobs
    /\ lifetime = 0
    /\ horizon = MaxTime
    /\ ppool = FALSE
    /\ proc = <<>>
    /\ status = [p \in JobIds |-> "unborn"]
    /\ start_time = [p \in JobIds |-> 0]
    /\ kills = [p \in JobIds |-> 0]
    /\ now = 0
    /\ pc = "init"
    /\ url = 1
    /\ stime = 0
    /\ idx = 0
    /\ exit_status = -1
    /\ nkillall = 0
    /\ lag = 0
    /\ launched = <<>>
    /\ freed = -1
    /\ nreports = 0
    /\ last_count = 0

\* ---- the environment ----------------------------------------------------

\* the children's lifetime lets the clock advance: none is due to exit
ClockFree ==
    lifetime = 0 \/ \A p \in Pids : status[p] = "alive" => get_runtime(p) < lifetime

\* line 107: the admission test
AtCapacityOffByOne == Len(proc) > max_processes
AtCapacity == Len(proc) >= max_processes

\* the caller is inside run's while loop
Blocked == pc = "run_sleep" \/ (pc = "run_while" /\ AtCapacity)

\* a running child exits by itself
ProcExit(p) ==
    /\ status[p] = "alive"
    /\ lifetime = 0 \/ get_runtime(p) = lifetime
    /\ status' = [status EXCEPT ![p] = "exited"]
    /\ freed' = IF Blocked /\ InProc(p) /\ freed = -1 THEN now ELSE freed
    /\ UNCHANGED <<cfgvars, ppool, proc, start_time, kills, now, pc, url,
                   finvars, exit_status, nkillall, lag, launched, repvars>>

\* a child that was sent SIGKILL is gone
ProcDie(p) ==
    /\ status[p] = "dying"
    /\ status' = [status EXCEPT ![p] = "exited"]
    /\ UNCHANGED <<cfgvars, ppool, proc, start_time, kills, now, pc, url,
                   finvars, exit_status, histvars>>

\* ---- main ---------------------------------------------------------------

\* line 200: ppool = ProcessPool(...)
Construct ==
    /\ pc = "init"
    /\ ppool' = TRUE
    /\ proc' = <<>>
    /\ pc' = "loop"
    /\ UNCHANGED <<cfgvars, osvars, url, finvars, exit_status, histvars>>

\* lines 214-233: the caller is busy between two pool calls and the clock ticks
CallerDelay ==
    /\ pc = "loop"
    /\ now < horizon
    /\ ClockFree
    /\ now' = now + 1
    /\ UNCHANGED <<cfgvars, ppool, proc, status, start_time, kills, pc, url,
                   finvars, exit_status, histvars>>

\* line 234: ppool.run(cmd + [url]) is called for the next url
CallRun ==
    /\ pc = "loop"
    /\ url <= nurls
    /\ pc' = "run_while"
    /\ UNCHANGED <<cfgvars, ppool, proc, osvars, url, finvars, exit_status,
                   histvars>>

\* line 235: the urls are used up, ppool.finalize() is called
CallFinalize ==
    /\ pc = "loop"
    /\ url > nurls
    /\ pc' = "fin_start"
    /\ UNCHANGED <<cfgvars, ppool, proc, osvars, url, finvars, exit_status,
                   histvars>>

\* ---- ProcessPool.run ----------------------------------------------------

\* lines 107-108: at capacity, sweep
RunClean ==
    /\ pc = "run_while"
    /\ AtCapacity
    /\ proc' = CleanProc
    /\ status' = CleanStatus
    /\ kills' = CleanKillCount
    /\ pc' = "run_sleep"
    /\ UNCHANGED <<cfgvars, ppool, start_time, now, url, finvars, exit_status,
                   histvars>>

\* line 109: time.sleep(1)
RunSleep ==
    /\ pc = "run_sleep"
    /\ now < horizon
    /\ ClockFree
    /\ now' = now + 1
    /\ pc' = "run_while"
    /\ UNCHANGED <<cfgvars, ppool, proc, status, start_time, kills, url,
                   finvars, exit_status, histvars>>

\* lines 214, 234: the job the for loop hands to run, in command-line order
JobReversed == nurls + 1 - url
JobRepeated == IF url > 1 THEN url - 1 ELSE url
Job == url

\* line 115: self.proc.append(p)
RunAppendSwept(p) == Append(CleanProc, p)
RunAppend(p) == Append(proc, p)

\* lines 111-115: below capacity, spawn the process and track it
RunSpawn ==
    /\ pc = "run_while"
    /\ ~AtCapacity
    /\ status' = [status EXCEPT ![Job] = "alive"]
    /\ start_time' = [start_time EXCEPT ![Job] = now]
    /\ proc' = RunAppend(Job)
    /\ launched' = Append(launched, Job)
    /\ freed' = -1
    /\ url' = url + 1
    /\ pc' = "loop"
    /\ UNCHANGED <<cfgvars, ppool, kills, now, finvars, exit_status, nkillall,
                   lag, repvars>>

\* line 112: subprocess.Popen raises (OSError), run is left by the exception
\* before line 115 is reached
RunSpawnFailTracked == Append(proc, Job)
RunSpawnFailProc == proc

RunSpawnFail ==
    /\ pc = "run_while"
    /\ ~AtCapacity
    /\ proc' = RunSpawnFailProc
    /\ pc' = "exc"
    /\ UNCHANGED <<cfgvars, ppool, osvars, url, finvars, exit_status,
                   histvars>>

\* ---- ProcessPool.finalize -----------------------------------------------

\* lines 119-121
FinStart ==
    /\ pc = "fin_start"
    /\ stime' = now
    /\ proc' = CleanProc
    /\ status' = CleanStatus
    /\ kills' = CleanKillCount
    /\ idx' = 0
    /\ pc' = "fin_while"
    /\ UNCHANGED <<cfgvars, ppool, start_time, now, url, exit_status,
                   histvars>>

\* line 122: the loop test
FinLoopsOffByOne == Len(proc) > 1
FinLoops == Len(proc) > 0

\* lines 123-124
dtime == now - stime
GlobalTimeoutHitUnguarded == dtime >= timeout
GlobalTimeoutHitLate == timeout > 0 /\ dtime > timeout
GlobalTimeoutHit == timeout > 0 /\ dtime >= timeout

\* line 126: the number the modulus is taken by
ReportInterval == 10

\* line 126: this iteration prints the "waiting for ..." message (main calls
\* finalize with the default verbose = 1)
ReportDueAlways == idx >= 0
ReportDue == idx % ReportInterval = 0

\* line 127: the count the message gives
ReportCount == Len(proc)

\* lines 122-127: the loop goes on; killall once the global timeout is met
FinIter ==
    /\ pc = "fin_while"
    /\ FinLoops
    /\ IF GlobalTimeoutHit
         THEN /\ status' = KillallStatus
              /\ kills' = KillallKillCount
              /\ proc' = KillallProc
              /\ nkillall' = nkillall + 1
         ELSE UNCHANGED <<status, kills, proc, nkillall>>
    /\ IF ReportDue
         THEN /\ nreports' = nreports + 1
              /\ last_count' = ReportCount
         ELSE UNCHANGED <<nreports, last_count>>
    /\ pc' = "fin_clean"
    /\ UNCHANGED <<cfgvars, ppool, start_time, now, url, finvars, exit_status,
                   lag, launched, freed>>

\* lines 128-129
FinClean ==
    /\ pc = "fin_clean"
    /\ proc' = CleanProc
    /\ status' = CleanStatus
    /\ kills' = CleanKillCount
    /\ idx' = idx + 1
    /\ lag' = IF \E k \in 1..Len(CleanProc) : status[CleanProc[k]] = "dying"
                THEN lag + 1 ELSE lag
    /\ pc' = "fin_sleep"
    /\ UNCHANGED <<cfgvars, ppool, start_time, now, url, stime, exit_status,
                   nkillall, launched, freed, repvars>>

\* line 130
FinSleep ==
    /\ pc = "fin_sleep"
    /\ now < horizon
    /\ ClockFree
    /\ now' = now + 1
    /\ pc' = "fin_while"
    /\ UNCHANGED <<cfgvars, ppool, proc, status, start_time, kills, url,
                   finvars, exit_status, histvars>>

\* line 122 is false: finalize returns
FinReturn ==
    /\ pc = "fin_while"
    /\ ~FinLoops
    /\ pc' = "fin_done"
    /\ UNCHANGED <<cfgvars, ppool, proc, osvars, url, finvars, exit_status,
                   histvars>>

\* ---- main: the ways out -------------------------------------------------

\* lines 236, 254
Exit0 ==
    /\ pc = "fin_done"
    /\ exit_status' = 0
    /\ pc' = "exited"
    /\ UNCHANGED <<cfgvars, ppool, proc, osvars, url, finvars, histvars>>

\* lines 198-236: the statements inside main's try
InTry == pc \in {"init", "loop", "run_while", "run_sleep", "fin_start",
                 "fin_while", "fin_clean", "fin_sleep", "fin_done"}

\* line 237: a KeyboardInterrupt arrives inside the try
Interrupt ==
    /\ InTry
    /\ pc' = "kbd"
    /\ UNCHANGED <<cfgvars, ppool, proc, osvars, url, finvars, exit_status,
                   histvars>>

\* lines 239, 246: the handlers call killall only on a constructed pool
HandlerKillsNever == FALSE
HandlerKills == ppool

\* lines 237-242 and 245-251: the handler, then sys.exit(1)
Handler ==
    /\ pc \in {"kbd", "exc"}
    /\ IF HandlerKills
         THEN /\ status' = KillallStatus
              /\ kills' = KillallKillCount
              /\ proc' = KillallProc
              /\ nkillall' = nkillall + 1
         ELSE UNCHANGED <<status, kills, proc, nkillall>>
    /\ exit_status' = 1
    /\ pc' = "exited"
    /\ UNCHANGED <<cfgvars, ppool, start_time, now, url, finvars, lag,
                   launched, freed, repvars>>

Next ==
    \/ \E p \in Pids : ProcExit(p)
    \/ \E p \in Pids : ProcDie(p)
    \/ Construct
    \/ CallerDelay
    \/ CallRun
    \/ CallFinalize
    \/ RunClean
    \/ RunSleep
    \/ RunSpawn
    \/ RunSpawnFail
    \/ FinStart
    \/ FinIter
    \/ FinClean
    \/ FinSleep
    \/ FinReturn
    \/ Exit0
    \/ Interrupt
    \/ Handler

Spec == Init /\ [][Next]_vars

\* ---- runs that nothing cuts short ---------------------------------------
\* Runs of main without interrupt, without a failing Popen and without delay
\* in the caller.  The control thread runs on: a statement that can be
\* executed is executed (time.sleep returns, no step of main waits for
\* anything else).  Children need not exit by themselves.
Progress ==
    \/ Construct
    \/ CallRun
    \/ CallFinalize
    \/ RunClean
    \/ RunSleep
    \/ RunSpawn
    \/ FinStart
    \/ FinIter
    \/ FinClean
    \/ FinSleep
    \/ FinReturn
    \/ Exit0

FairNext ==
    \/ \E p \in Pids : ProcExit(p)
    \/ \E p \in Pids : ProcDie(p)
    \/ Progress

\* ... and a child that was sent SIGKILL is taken down in the end.
FairSpec ==
    /\ Init
    /\ [][FairNext]_vars
    /\ WF_vars(Progress)
    /\ \A p \in JobIds : WF_vars(ProcDie(p))

\* ---- the scenarios -------------------------------------------------------
\* Runs of main with given arguments and children of a fixed lifetime, with no
\* interrupt, no failing Popen and no delay in the caller:
\*   n urls, --maxproc k, every child exits d seconds after its launch,
\*   --process-timeout 0, finalize(); the clock is followed up to second h.

Scenarios == {[n |-> 10, k |-> 2, d |-> 3, h |-> 30],
              [n |-> 2, k |-> 2, d |-> 10, h |-> 30]}

ScenarioInit ==
    \E sc \in Scenarios :
        /\ process_timeout = 0
        /\ max_processes = sc.k
        /\ timeout = 0
        /\ nurls = sc.n
        /\ lifetime = sc.d
        /\ horizon = sc.h
        /\ ppool = FALSE
        /\ proc = <<>>
        /\ status = [p \in 1..sc.n |-> "unborn"]
        /\ start_time = [p \in 1..sc.n |-> 0]
        /\ kills = [p \in 1..sc.n |-> 0]
        /\ now = 0
        /\ pc = "init"
        /\ url = 1
        /\ stime = 0
        /\ idx = 0
        /\ exit_status = -1
        /\ nkillall = 0
        /\ lag = 0
        /\ launched = <<>>
        /\ freed = -1
        /\ nreports = 0
        /\ last_count = 0

ScenarioNext ==
    \/ \E p \in Pids : ProcExit(p)
    \/ Construct
    \/ CallRun
    \/ CallFinalize
    \/ RunClean
    \/ RunSleep
    \/ RunSpawn
    \/ FinStart
    \/ FinIter
    \/ FinClean
    \/ FinSleep
    \/ FinReturn
    \/ Exit0

ScenarioSpec == ScenarioInit /\ [][ScenarioNext]_vars

\* ---- properties ---------------------------------------------------------

\* a step in which killall is called (from finalize or from a handler)
KillallStep == nkillall' = nkillall + 1

\* the caller is inside finalize
InDrain == pc \in {"fin_start", "fin_while", "fin_clean", "fin_sleep"}

\* C1: with max_processes >= 1 the running set never holds more than
\* max_processes processes, in any reachable state.
C1_RunningBounded == max_processes >= 1 => Len(proc) <= max_processes

\* C1 witness: the set is full again after a sweep freed a slot and a later
\* job was admitted.
C1_Witness ==
    /\ max_processes >= 1
    /\ Len(proc) = max_processes
    /\ Len(launched) > max_processes

\* C2 as stated: killall on a non-empty running set leaves the set empty and
\* has sent a kill signal to every tracked process that was still alive.
C2_KillallEmptiesSet ==
    [][(KillallStep /\ proc # <<>>) =>
         /\ proc' = <<>>
         /\ \A p \in Pids : (InProc(p) /\ status[p] \in {"alive", "dying"})
                               => kills'[p] = kills[p] + 1]_vars

\* C2 amended: killall sends a kill signal to every tracked process that is
\* still alive, whatever its runtime, and leaves the running set as it was.
C2_KillallKillsAndKeepsSet ==
    [][KillallStep =>
         /\ proc' = proc
         /\ \A p \in Pids : (InProc(p) /\ status[p] \in {"alive", "dying"})
                               => /\ kills'[p] = kills[p] + 1
                                  /\ status'[p] = "dying"]_vars

\* C2 witness: the program was stopped right after a submit; the process was
\* killed at runtime 0 and is still tracked.
C2_Witness ==
    /\ pc = "exited"
    /\ \E p \in Pids : /\ InProc(p)
                       /\ status[p] = "dying"
                       /\ kills[p] = 1
                       /\ get_runtime(p) = 0

\* C3: killall on an empty running set sends no signal and changes nothing;
\* it never signals a process that has exited; and a second call right after
\* a first would leave the pool and the processes as the first left them.
C3_KillallIdempotent ==
    [][KillallStep =>
         /\ proc = <<>> => (kills' = kills /\ status' = status /\ proc' = proc)
         /\ \A p \in Pids : status[p] = "exited"
                               => (kills'[p] = kills[p] /\ status'[p] = "exited")
         /\ KillallStatus' = status'
         /\ KillallProc' = proc']_vars

\* C3 witness: killall was called twice on a tracked process; the process had
\* exited before the second call and was signalled once only.
C3_Witness ==
    /\ nkillall >= 2
    /\ \E p \in Pids : InProc(p) /\ status[p] = "exited" /\ kills[p] = 1

\* C4: finalize has returned only in states where the running set is empty.
C4_DrainReturnsEmpty == pc = "fin_done" => proc = <<>>

\* C4 witness: finalize returned after its loop ran, with processes launched.
C4_Witness == pc = "fin_done" /\ idx >= 1 /\ Len(launched) >= 2

\* C5: in a finalize with timeout = 0, killall is never called; a process
\* leaves the running set only if it had exited or if the sweep killed it for
\* exceeding process_timeout > 0; and nothing else is sent a kill signal.
C5_DrainNoGlobalKill ==
    [][(InDrain /\ timeout = 0) =>
         /\ nkillall' = nkillall
         /\ \A p \in Pids :
              /\ (InProc(p) /\ ~InProc(p)') =>
                    \/ status[p] = "exited"
                    \/ /\ process_timeout > 0
                       /\ get_runtime(p) > process_timeout
                       /\ kills'[p] = kills[p] + 1
              /\ kills'[p] # kills[p] =>
                    /\ process_timeout > 0
                    /\ get_runtime(p) > process_timeout
                    /\ ~InProc(p)']_vars

\* C5 witness: a drain without global timeout in which the sweep has killed
\* a process for its runtime while another is still tracked.
C5_Witness ==
    /\ pc = "fin_sleep"
    /\ timeout = 0
    /\ nkillall = 0
    /\ proc # <<>>
    /\ \E p \in Pids : ~InProc(p) /\ status[p] = "dying" /\ start_time[p] <= stime

\* C6 as stated: a finalize with timeout G > 0 returns at most G + 1 seconds
\* after it began.
C6_DrainWithinGPlusOne ==
    (pc = "fin_done" /\ timeout > 0) => now - stime <= timeout + 1

\* C6 amended: it returns at most G + 1 seconds after it began, plus one
\* second for every sweep that found an already killed process still alive.
C6_DrainWithinGPlusOnePlusLag ==
    (pc = "fin_done" /\ timeout > 0) => now - stime <= timeout + 1 + lag

\* C6 witness: finalize returned after its killall, with one late sweep.
C6_Witness ==
    /\ pc = "fin_done"
    /\ timeout > 0
    /\ nkillall >= 1
    /\ lag = 1
    /\ now - stime = timeout + 2

\* C7 as stated: with process_timeout = T > 0 no process is tracked and alive
\* more than one second after its runtime passed T, wherever the caller is.
C7_TimeoutKillEverywhere ==
    process_timeout > 0 =>
        \A p \in Pids : (InProc(p) /\ status[p] = "alive")
                           => get_runtime(p) <= process_timeout + 1

\* the bound on the runtime of the tracked running processes
RuntimeWithin(n) ==
    \A p \in Pids : (InProc(p) /\ status[p] # "exited") => get_runtime(p) <= n

\* C7 amended: while the caller polls (blocked in run at capacity, or inside
\* finalize) every sweep leaves only processes of runtime <= T, the next sweep
\* comes one second later, and a process that leaves the set alive is killed.
C7_TimeoutKillWhilePolling ==
    /\ [](process_timeout > 0 =>
            /\ pc \in {"run_sleep", "fin_sleep"} => RuntimeWithin(process_timeout)
            /\ pc \in {"fin_while", "fin_clean"} => RuntimeWithin(process_timeout + 1))
    /\ [][(process_timeout > 0 /\ pc = "run_sleep")
            => RuntimeWithin(process_timeout + 1)']_vars
    /\ [](\A p \in Pids : status[p] = "alive" => InProc(p))

\* C7 witness: blocked in run, the sweep has just killed a process whose
\* runtime is T + 1.
C7_Witness ==
    /\ pc = "run_sleep"
    /\ process_timeout > 0
    /\ nkillall = 0
    /\ \E p \in Pids : /\ ~InProc(p)
                       /\ status[p] = "dying"
                       /\ get_runtime(p) = process_timeout + 1

\* C8: when Popen fails in run, control is in main's exception handler with
\* the pool and the processes exactly as before the attempt; the failed job
\* is not tracked and never ran.
C8_SpawnFailureLeavesState ==
    /\ [][(pc = "run_while" /\ pc' = "exc") =>
            (proc' = proc /\ status' = status /\ kills' = kills
             /\ launched' = launched /\ nkillall' = nkillall)]_vars
    /\ [](pc = "exc" => (~InProc(Job) /\ status[Job] = "unborn"))

\* C8 witness: a spawn failed while an earlier process was tracked and alive.
C8_Witness ==
    /\ pc = "exc"
    /\ \E p \in Pids : InProc(p) /\ status[p] = "alive" /\ kills[p] = 0

\* C9: the processes are launched in the order of the urls: the k-th launch
\* is job k, and a later job never has an earlier start time.
C9_FifoAdmission ==
    /\ \A k \in 1..Len(launched) : launched[k] = k
    /\ \A p, q \in Pids : (p < q /\ status[q] # "unborn")
                             => (status[p] # "unborn" /\ start_time[p] <= start_time[q])

\* C9 witness: three jobs were launched, the third after waiting for a slot.
C9_Witness ==
    /\ Len(launched) = 3
    /\ max_processes < 3
    /\ start_time[3] > start_time[2]

\* C10: main exits with status 1 from a handler only after calling killall on
\* the pool it constructed, the handlers lead nowhere else, and main exits
\* with status 0 only after finalize returned.
C10_ExitDiscipline ==
    [][/\ (exit_status' = 1 /\ exit_status # 1 /\ ppool) => KillallStep
       /\ (pc \in {"kbd", "exc"} /\ pc' # pc) => exit_status' = 1
       /\ (exit_status' = 0 /\ exit_status # 0) => (pc = "fin_done" /\ proc = <<>>)
       /\ exit_status' # exit_status => exit_status = -1]_vars

\* C10 witness: interrupted while jobs were still to be submitted, main exited
\* with status 1 and a tracked process was killed by the handler.
C10_Witness ==
    /\ exit_status = 1
    /\ url <= nurls
    /\ nkillall = 1
    /\ \E p \in Pids : InProc(p) /\ kills[p] = 1

\* p is an element of the list s
Tracked(s, p) == \E k \in 1..Len(s) : s[k] = p

\* the position of p in the list s
PosIn(s, p) == CHOOSE k \in 1..Len(s) : s[k] = p

\* the elements of new stand in the order they have in old
KeepsOrder(old, new) ==
    \A i, j \in 1..Len(new) : i < j => PosIn(old, new[i]) < PosIn(old, new[j])

NoDup(s) == \A i, j \in 1..Len(s) : i # j => s[i] # s[j]

\* a step that is one call of __clean
SweepStep ==
    \/ pc = "run_while" /\ pc' = "run_sleep"
    \/ pc = "fin_start" /\ pc' = "fin_while"
    \/ pc = "fin_clean" /\ pc' = "fin_sleep"

\* C11 as stated: the sweep that follows finalize's killall leaves the
\* running set empty.
C11_EmptyAfterNextSweep ==
    [][(pc = "fin_clean" /\ pc' = "fin_sleep" /\ GlobalTimeoutHit)
          => proc' = <<>>]_vars

\* C11 amended: the sweep that follows finalize's killall keeps exactly the
\* killed processes that do not yet show as exited (and are not over
\* process_timeout); the set is empty after it when there is none, and
\* otherwise the next iteration calls killall again.
C11_SweepAfterKillall ==
    [][(pc = "fin_clean" /\ pc' = "fin_sleep" /\ GlobalTimeoutHit) =>
         /\ \A p \in Pids : Tracked(proc', p) <=>
               /\ Tracked(proc, p)
               /\ status[p] = "dying"
               /\ kills[p] >= 1
               /\ ~(process_timeout > 0 /\ now - start_time[p] > process_timeout)
         /\ (\A p \in Pids : Tracked(proc, p) => status[p] = "exited")
               => proc' = <<>>]_vars

\* C11 witness: a second kill round was needed: the first sweep after killall
\* kept a process, the second emptied the set.
C11_Witness ==
    /\ pc = "fin_sleep"
    /\ nkillall = 2
    /\ lag = 1
    /\ proc = <<>>

\* C14: a sweep removes every exited process without a kill, kills and
\* removes every process that is not exited and whose runtime is above
\* process_timeout > 0, keeps every other process untouched and in order,
\* and touches nothing that is not tracked.
C14_SweepPartition ==
    [][SweepStep =>
         /\ \A p \in Pids :
              IF Tracked(proc, p)
                THEN /\ status[p] = "exited" =>
                          /\ ~Tracked(proc', p)
                          /\ kills'[p] = kills[p]
                          /\ status'[p] = "exited"
                     /\ (status[p] # "exited" /\ process_timeout > 0
                            /\ now - start_time[p] > process_timeout) =>
                          /\ ~Tracked(proc', p)
                          /\ kills'[p] = kills[p] + 1
                          /\ status'[p] = "dying"
                     /\ (status[p] # "exited"
                            /\ (process_timeout = 0
                                  \/ now - start_time[p] <= process_timeout)) =>
                          /\ Tracked(proc', p)
                          /\ kills'[p] = kills[p]
                          /\ status'[p] = status[p]
                ELSE /\ ~Tracked(proc', p)
                     /\ kills'[p] = kills[p]
                     /\ status'[p] = status[p]
         /\ KeepsOrder(proc, proc')
         /\ NoDup(proc')]_vars

\* C14 witness: a sweep has killed one process and kept another whose runtime
\* equals process_timeout.
C14_Witness ==
    /\ pc = "run_sleep"
    /\ process_timeout > 0
    /\ \E p, q \in Pids :
          /\ InProc(p) /\ status[p] = "alive" /\ get_runtime(p) = process_timeout
          /\ ~InProc(q) /\ status[q] = "dying"

\* C16: no process is launched twice and none is tracked twice: the launches
\* and the running set hold no duplicates, only launched processes are
\* tracked, a process that is dying or exited never runs again, and a launch
\* adds one new record.
C16_LaunchedOnce ==
    /\ [](/\ NoDup(launched)
          /\ NoDup(proc)
          /\ \A p \in Pids : InProc(p) => Tracked(launched, p)
          /\ \A p \in Pids : status[p] # "unborn" <=> Tracked(launched, p))
    /\ [][/\ \A p \in Pids : status[p] \in {"dying", "exited"}
                                => status'[p] \in {"dying", "exited"}
          /\ \A p \in Pids : status[p] # "unborn" => start_time'[p] = start_time[p]
          /\ launched' # launched =>
                \E p \in Pids : /\ ~Tracked(launched, p)
                                /\ launched' = Append(launched, p)
                                /\ proc' = Append(proc, p)]_vars

\* C16 witness: after three launches, a process killed for its runtime has
\* exited and is no longer tracked.
C16_Witness ==
    /\ Len(launched) = 3
    /\ \E p \in Pids : ~InProc(p) /\ status[p] = "exited" /\ kills[p] = 1

\* C19: a call of run below capacity leaves by launching (or by the failed
\* Popen) with no sweep and no sleep: the clock and the kill counts stay, the
\* set only gains the new record; and the set loses a record, or a process is
\* killed, only at capacity in run, in finalize or in a handler.
C19_BelowCapacityNoSweep ==
    /\ [][(pc = "run_while" /\ Len(proc) < max_processes
             /\ pc' # pc /\ pc' # "kbd") =>
            /\ now' = now
            /\ kills' = kills
            /\ \/ /\ pc' = "loop"
                  /\ Len(launched') = Len(launched) + 1
                  /\ proc' = Append(proc, launched'[Len(launched')])
                  /\ \A p \in Pids : status[p] # "unborn" => status'[p] = status[p]
               \/ /\ pc' = "exc"
                  /\ proc' = proc
                  /\ status' = status]_vars
    /\ [][((\E p \in Pids : Tracked(proc, p) /\ ~Tracked(proc', p))
             \/ kills' # kills) =>
            \/ pc = "run_while" /\ Len(proc) >= max_processes
            \/ InDrain
            \/ pc \in {"kbd", "exc"}]_vars

\* C19 witness: a second job was just launched below capacity while the
\* first, alive and over process_timeout, is still tracked and unkilled.
C19_Witness ==
    /\ pc = "loop"
    /\ process_timeout > 0
    /\ Len(proc) = 2
    /\ status[proc[1]] = "alive"
    /\ kills[proc[1]] = 0
    /\ get_runtime(proc[1]) > process_timeout
    /\ start_time[proc[2]] = now

\* C20: with max_processes <= 0 nothing is ever launched or tracked, run
\* never returns (the for loop stays at the first url) and main never exits
\* with status 0.
C20_NoCapacityNoLaunch ==
    max_processes <= 0 =>
        /\ launched = <<>>
        /\ proc = <<>>
        /\ \A p \in Pids : status[p] = "unborn"
        /\ url = 1
        /\ pc \in {"init", "loop", "run_while", "run_sleep", "kbd", "exited"}
        /\ exit_status # 0

\* C20 witness: with max_processes <= 0 run has been polling for two seconds.
C20_Witness ==
    /\ max_processes <= 0
    /\ pc = "run_sleep"
    /\ now >= 2

\* C13 as stated: in the scenario of 10 jobs, 2 at a time, 3 seconds each,
\* finalize returns no earlier than second 15 and no later than second 16.
C13_TenJobsFifteenSeconds ==
    (pc = "fin_done" /\ nurls = 10) => (now >= 15 /\ now <= 16)

\* C13 amended: finalize returns no earlier than second 20 and no later than
\* second 25: each of the 5 waves takes its 3 seconds, one more second for
\* the sleep after the sweep that saw the exits, and one more when the sweep
\* of second 3 comes before an exit.
C13_TenJobsTwentySeconds ==
    (pc = "fin_done" /\ nurls = 10) => (now >= 20 /\ now <= 25)

\* C13 witness: the run of the 10 jobs that ends at second 20.
C13_Witness ==
    /\ pc = "fin_done"
    /\ nurls = 10
    /\ Len(launched) = 10
    /\ now = 20

\* C15 as stated: a job that waited in run is launched at most one second
\* after the exit that freed its slot.
C15_AdmittedWithinOnePoll ==
    [][(launched' # launched /\ freed # -1) => now - freed <= 1]_vars

\* C15 amended: it is launched at most two seconds after that exit: up to one
\* until a sweep sees the exit, and one for the sleep that follows the sweep.
C15_AdmittedWithinTwoPolls ==
    /\ [][(launched' # launched /\ freed # -1)
            => (now - freed >= 1 /\ now - freed <= 2)]_vars
    /\ []((pc \in {"run_while", "run_sleep"} /\ freed # -1) =>
            /\ now - freed <= 2
            /\ now - freed = 2 => (pc = "run_while" /\ Len(proc) < max_processes))

\* C15 witness: two seconds after the exit the slot is free and the launch
\* is due.
C15_Witness ==
    /\ pc = "run_while"
    /\ freed # -1
    /\ now - freed = 2
    /\ Len(proc) < max_processes

\* the tracked processes that have not exited
Running == {p \in Pids : InProc(p) /\ status[p] # "exited"}

\* C17 as stated: finalize prints its message in exactly the iterations 0,
\* 10, 20, ..., and the count it gives is the number of processes running
\* at that moment.
C17_ReportCountsRunning ==
    [][(pc = "fin_while" /\ pc' = "fin_clean") =>
         /\ nreports' # nreports <=> idx % 10 = 0
         /\ nreports' # nreports => last_count' = Cardinality(Running)]_vars

\* C17 amended: the message comes in exactly the iterations 0, 10, 20, ...,
\* and its count is the size of the running set as the previous sweep left
\* it: the running processes and those that exited since that sweep.
C17_ReportCountsTracked ==
    /\ [][(pc = "fin_while" /\ pc' = "fin_clean") =>
            /\ nreports' # nreports <=> idx % 10 = 0
            /\ nreports' = nreports \/ nreports' = nreports + 1
            /\ nreports' # nreports =>
                  /\ last_count' = Len(proc)
                  /\ last_count' >= Cardinality(Running)]_vars
    /\ [][nreports' # nreports => (pc = "fin_while" /\ pc' = "fin_clean")]_vars
    /\ [](InDrain /\ pc # "fin_start" => nreports = (idx + 9) \div 10
                                           \/ (pc = "fin_clean" /\ nreports = idx \div 10 + 1))

\* C17 witness: in iteration 10 the message counted two processes, both
\* exited since the last sweep.
C17_Witness ==
    /\ pc = "fin_clean"
    /\ idx = 10
    /\ nreports = 2
    /\ last_count = 2
    /\ Running = {}

\* finalize has set stime and is in its loop
DrainBegan == pc \in {"fin_while", "fin_clean", "fin_sleep"}

\* finalize has returned
DrainOver == pc \in {"fin_done", "exited"}

RunOver == pc \notin {"run_while", "run_sleep"}

\* C18: with max_processes >= 1 a blocked run leaves its loop within the
\* clock's range: by T + 2 seconds when process_timeout = T > 0, and within
\* two seconds once a tracked process has exited.
C18_BlockedSubmitProceeds ==
    /\ (Blocked /\ max_processes >= 1 /\ process_timeout > 0
          /\ now + process_timeout + 2 <= horizon) ~> RunOver
    /\ (Blocked /\ max_processes >= 1 /\ now + 2 <= horizon
          /\ \E p \in JobIds : InProc(p) /\ status[p] = "exited") ~> RunOver

\* C18 witness: a job has been launched after the sweep killed a process for
\* its runtime and so freed a slot.
C18_Witness ==
    /\ pc = "loop"
    /\ process_timeout > 0
    /\ max_processes >= 1
    /\ Len(launched) > max_processes
    /\ nkillall = 0
    /\ \E p \in Pids : ~InProc(p) /\ kills[p] = 1 /\ start_time[launched[Len(launched)]]
                          = start_time[p] + process_timeout + 2

====
